---------------------------- MODULE Spec2Model ----------------------------
(***************************************************************************)
(* Model of the event-dispatch and shared-state subsystem of hifumi-rs:    *)
(* the message pipeline (src/handlers/messages.rs), first-contact prefix   *)
(* registration (src/helpers/utils.rs), and the top-level event handler    *)
(* with its error escalation (src/main.rs).                                *)
(*                                                                         *)
(* Text is modelled as a sequence of one-character strings, so that        *)
(* to_lowercase, split_whitespace, starts_with and replace are computed    *)
(* the way the standard library computes them.                             *)
(***************************************************************************)
EXTENDS Naturals, Sequences, FiniteSets, TLC

(***************************************************************************)
(* Bounds of the model.                                                    *)
(***************************************************************************)
\* Largest number of documents in the "prefixes" collection at startup.
MaxInitDocs == 2

\* Largest number of documents in the "statuses" collection at startup.
MaxStatuses == 2

\* The presence updates of the status loop are counted up to this number.
MaxRounds == 2

(***************************************************************************)
(* Text: characters and the string functions the handler uses.             *)
(***************************************************************************)
\* char::to_lowercase on the letters the inputs use.
LowerChar(c) ==
    CASE c = "H" -> "h"
      [] c = "P" -> "p"
      [] c = "I" -> "i"
      [] c = "N" -> "n"
      [] c = "G" -> "g"
      [] c = "F" -> "f"
      [] c = "W" -> "w"
      [] c = "A" -> "a"
      [] c = "T" -> "t"
      [] c = "C" -> "c"
      [] c = "L" -> "l"
      [] c = "E" -> "e"
      [] OTHER   -> c

\* str::to_lowercase
ToLowercase(s) == [i \in 1..Len(s) |-> LowerChar(s[i])]

\* char::is_whitespace on the characters the inputs use.
IsWhitespace(c) == c \in {" ", "\t", "\n"}

\* str::starts_with
StartsWith(s, p) == Len(p) <= Len(s) /\ SubSeq(s, 1, Len(p)) = p

\* The position of the first whitespace character of s, or Len(s) + 1.
RECURSIVE FirstWhitespace(_, _)
FirstWhitespace(s, i) ==
    IF i > Len(s) \/ IsWhitespace(s[i]) THEN i ELSE FirstWhitespace(s, i + 1)

\* str::split_whitespace: the maximal runs of non-whitespace characters.
RECURSIVE SplitWhitespace(_)
SplitWhitespace(s) ==
    IF s = <<>> THEN <<>>
    ELSE IF IsWhitespace(s[1]) THEN SplitWhitespace(Tail(s))
    ELSE LET e == FirstWhitespace(s, 1)
         IN  <<SubSeq(s, 1, e - 1)>> \o SplitWhitespace(SubSeq(s, e, Len(s)))

\* str::replace(pat, ""): every non-overlapping occurrence of pat, found
\* left to right, is removed.  An empty pattern leaves the text as it is.
RECURSIVE ReplaceWithEmpty(_, _)
ReplaceWithEmpty(s, pat) ==
    IF pat = <<>> \/ s = <<>> THEN s
    ELSE IF StartsWith(s, pat)
         THEN ReplaceWithEmpty(SubSeq(s, Len(pat) + 1, Len(s)), pat)
         ELSE <<s[1]>> \o ReplaceWithEmpty(Tail(s), pat)

\* str::strip_prefix(char): the rest of the text after a leading c, if any.
StripPrefixChar(s, c) ==
    IF s # <<>> /\ s[1] = c THEN [ok |-> TRUE, rest |-> Tail(s)]
    ELSE [ok |-> FALSE, rest |-> <<>>]


(***************************************************************************)
(* Message texts the gateway delivers.                                     *)
(***************************************************************************)
T_hping    == <<"h", "!", "p", "i", "n", "g">>
T_HPFP     == <<"H", "!", "P", "F", "P", " ", "<", "@", "1", "2", "3", ">">>
T_hqpfp    == <<"h", "?", "p", "f", "p">>
T_hqPing   == <<"h", "?", "P", "i", "n", "g">>
T_hello    == <<"h", "e", "l", "l", "o">>
T_empty    == <<>>
T_blank    == <<" ", "\t">>
T_hpihng   == <<"h", "!", "p", "i", "h", "!", "n", "g">>
T_ping     == <<"p", "i", "n", "g">>
T_pping    == <<"p", "p", "i", "n", "g">>
T_hprefix  == <<"h", "!", "p", "r", "e", "f", "i", "x">>
T_h_ping   == <<"h", "!", " ", "p", "i", "n", "g">>
T_sp_hping == <<" ", "h", "!", "p", "i", "n", "g">>

Contents ==
    { T_hping, T_HPFP, T_hqpfp, T_hqPing, T_hello, T_empty, T_blank,
      T_hpihng, T_ping, T_pping, T_hprefix, T_h_ping, T_sp_hping }

\* Names of the command implementations handle_command routes to.
CmdPing == <<"p", "i", "n", "g">>
CmdPfp  == <<"p", "f", "p">>

\* The two fixed prefixes of handle_message and register_prefix.
DefaultPrefix == <<"h", "!">>
DevPrefix     == <<"h", "?">>

\* Prefix values a document of the "prefixes" collection may carry.
PrefixValues == { <<"h", "!">>, <<"H", "!">>, <<"p">> }

(***************************************************************************)
(* Guilds, channels, configuration.                                        *)
(***************************************************************************)
Guilds  == {1, 2}
NoGuild == 0            \* msg.guild_id = None

\* GuildId::to_string: the decimal text of the id.
GuildIdToString(g) == CASE g = 1 -> "1" [] g = 2 -> "2" [] OTHER -> "0"

\* Config::new: dev_channels and log_channel (ids kept as decimal text).
DevChannels == { "655484859405303809", "551588329003548683", "922679249058553857" }
LogChannel  == "655484804405657642"

\* Channels the modelled messages come from: a development channel and an
\* ordinary one.
MsgChannels == { "655484859405303809", "1000" }

Handlers == {"h1", "h2"}

Messages ==
    [ bot : BOOLEAN, content : Contents, guild : Guilds \cup {NoGuild},
      channel : MsgChannels ]

\* The feed of the two-handler specification: first-contact traffic.
RaceMessages ==
    [ bot : {FALSE}, content : {T_hping, T_hqpfp}, guild : Guilds,
      channel : {"1000"} ]

\* The feed of the specification with the status loop: one guild writes.
GuildMessages == { m \in RaceMessages : m.guild = 1 }

NoMessage == [ bot |-> FALSE, content |-> <<>>, guild |-> NoGuild, channel |-> "" ]

(***************************************************************************)
(* The persistent "prefixes" collection and the in-memory prefix map.      *)
(***************************************************************************)
PrefixDocs == [ server_id : { GuildIdToString(g) : g \in Guilds }, prefix : PrefixValues ]

RECURSIVE SeqsUpTo(_, _)
SeqsUpTo(S, n) ==
    IF n = 0 THEN { <<>> }
    ELSE LET shorter == SeqsUpTo(S, n - 1)
         IN  shorter \cup { Append(q, x) : q \in shorter, x \in S }

\* HashMap::insert
MapInsert(m, k, v) ==
    [ x \in DOMAIN m \cup {k} |-> IF x = k THEN v ELSE m[x] ]

EmptyMap == [ x \in {} |-> <<>> ]

\* main: the loop that fills the map from the documents found at startup.
RECURSIVE LoadPrefixes(_)
LoadPrefixes(docs) ==
    IF docs = <<>> THEN EmptyMap
    ELSE LET d == docs[Len(docs)]
         IN  MapInsert(LoadPrefixes(SubSeq(docs, 1, Len(docs) - 1)),
                       d.server_id, d.prefix)

(***************************************************************************)
(* The pure parts of handle_message, handle_command and error_log.         *)
(***************************************************************************)
\* handle_message: the lower-cased whitespace-separated tokens of the text.
Tokens(text) ==
    LET toks == SplitWhitespace(text)
    IN  [i \in 1..Len(toks) |-> ToLowercase(toks[i])]

\* Variant: the check of msg.author.bot is missing.
IsIgnored_NoBotCheck(m) == Tokens(m.content) = <<>>

\* handle_message: the messages that return Ok(()) at once.
IsIgnored(m) == m.bot \/ Tokens(m.content) = <<>>

\* handle_message: content[0].strip_prefix('$').unwrap_or_default()
ReactCmd(content) == StripPrefixChar(content[1], "$").rest

\* handle_message: content.get(1), or the empty string
SubCmd(content) == IF Len(content) >= 2 THEN content[2] ELSE <<>>

\* Variant: every message of a guild registers the guild.
NeedsRegistration_Always(guild, map) ==
    guild # NoGuild

\* handle_message: the guild is known to the message and not to the map.
NeedsRegistration(guild, map) ==
    guild # NoGuild /\ GuildIdToString(guild) \notin DOMAIN map

\* Variant: the stored prefix is used as it is, not lower-cased.
ResolvedPrefix_NoFold(dev, guild, map) ==
    IF dev THEN DevPrefix
    ELSE IF guild = NoGuild THEN DefaultPrefix
    ELSE IF GuildIdToString(guild) \in DOMAIN map
         THEN map[GuildIdToString(guild)]
         ELSE DefaultPrefix

\* Variant: the test for a direct message comes before development mode.
ResolvedPrefix_GuildFirst(dev, guild, map) ==
    ToLowercase(
        IF guild = NoGuild THEN DefaultPrefix
        ELSE IF dev THEN DevPrefix
        ELSE IF GuildIdToString(guild) \in DOMAIN map
             THEN map[GuildIdToString(guild)]
             ELSE DefaultPrefix)

\* Variant: a stored prefix wins over development mode.
ResolvedPrefix_StoredFirst(dev, guild, map) ==
    ToLowercase(
        IF guild # NoGuild /\ GuildIdToString(guild) \in DOMAIN map
        THEN map[GuildIdToString(guild)]
        ELSE IF dev THEN DevPrefix ELSE DefaultPrefix)

\* handle_message: the prefix the message is matched against.
ResolvedPrefix(dev, guild, map) ==
    ToLowercase(
        IF dev THEN DevPrefix
        ELSE IF guild = NoGuild THEN DefaultPrefix
        ELSE IF GuildIdToString(guild) \in DOMAIN map
             THEN map[GuildIdToString(guild)]
             ELSE DefaultPrefix)

\* Variant: the first token is matched, not the whole text.
IsInvocation_FirstToken(text, prefix) ==
    Tokens(text) # <<>> /\ StartsWith(Tokens(text)[1], prefix)

\* handle_message: msg.content.to_lowercase().starts_with(&prefix)
IsInvocation(text, prefix) == StartsWith(ToLowercase(text), prefix)

\* handle_message: content[0].replace(&prefix, "")
CommandName(content, prefix) == ReplaceWithEmpty(content[1], prefix)

\* Variant: the last branch is a catch-all.
Route_Fallback(command) ==
    IF command = CmdPing THEN "ping" ELSE "pfp"

\* handle_command: the implementation a command name is routed to.
Route(command) ==
    IF command = CmdPing THEN "ping"
    ELSE IF command = CmdPfp THEN "pfp"
    ELSE "none"

\* Variant: the development channels are not looked at.
ErrorChannel_AlwaysLog(channel) == LogChannel

\* error_log: the channel the report is posted to.
ErrorChannel(channel) ==
    IF channel \in DevChannels THEN channel ELSE LogChannel

(***************************************************************************)
(* State.                                                                  *)
(***************************************************************************)
(***************************************************************************)
(* The status rotation: documents of the "statuses" collection and the     *)
(* pure functions start_status_loop calls.                                 *)
(***************************************************************************)
T_WATCHING  == <<"W", "A", "T", "C", "H", "I", "N", "G">>
T_Listening == <<"L", "i", "s", "t", "e", "n", "i", "n", "g">>
T_competing == <<"c", "o", "m", "p", "e", "t", "i", "n", "g">>
T_EATING    == <<"E", "A", "T", "I", "N", "G">>

T_listening == <<"l", "i", "s", "t", "e", "n", "i", "n", "g">>
T_watching  == <<"w", "a", "t", "c", "h", "i", "n", "g">>

\* StatusDoc: the type and the text of one status.
StatusDocs ==
    { [ type |-> T_WATCHING,  status |-> "Star Wars" ],
      [ type |-> T_Listening, status |-> "music" ],
      [ type |-> T_competing, status |-> "chess" ],
      [ type |-> T_EATING,    status |-> "Pizza" ] }

\* The contents the "statuses" collection can have when main reads it.
StatusSnapshots == SeqsUpTo(StatusDocs, MaxStatuses)

\* The bounds of the sleep between two presence updates, in seconds.
SleepMin == 300
SleepMax == 900

\* get_activity: the Activity for a status type and a status text.
get_activity(type, status_msg) ==
    LET t == ToLowercase(type)
    IN  [ kind |-> IF t = T_listening THEN "listening"
                   ELSE IF t = T_watching THEN "watching"
                   ELSE IF t = T_competing THEN "competing"
                   ELSE "playing",
          name |-> status_msg ]

NoActivity == [ kind |-> "none", name |-> "" ]

\* Variant: an empty slice yields a default document.
random_element_vec_Default(vec) ==
    IF vec = <<>> THEN { [ some |-> TRUE,
                           v |-> [ type |-> T_EATING, status |-> "Pizza" ] ] }
    ELSE { [ some |-> TRUE, v |-> vec[i] ] : i \in DOMAIN vec }

\* random_element_vec: the values slice::choose can return for the slice.
random_element_vec(vec) ==
    IF vec = <<>> THEN { [ some |-> FALSE, v |-> <<>> ] }
    ELSE { [ some |-> TRUE, v |-> vec[i] ] : i \in DOMAIN vec }

VARIABLES
    devMode,    \* is_indev(): DEV_MODE is "true" in the environment
    feed,       \* which message events the gateway delivers: "all" or "first-contact"
    store,      \* the documents of the "prefixes" collection, in order
    prefixes,   \* Handler.prefixes: the map guarded by the RwLock
    lock,       \* the RwLock of Handler.prefixes: who holds it
    pc,         \* where each Handler::message task stands
    msg,        \* the message each task handles
    prefix,     \* the prefix handle_message resolved, if it got there
    data,       \* the MessageCommandData given to handle_command, if any
    result,     \* what handle_message returned: "none", "ok" or "err"
    err,        \* the text of the error handle_message returned
    log,        \* what each task did, in order, during this handling
    statuses,   \* Handler.statuses: the documents loaded at startup
    statusLock, \* the RwLock of Handler.statuses: who holds a read guard
    rpc,        \* where the status loop stands
    current,    \* random_status: the document the loop sampled
    presence,   \* the activity last given to ctx.set_activity
    sleepFor,   \* the seconds of the sleep in progress
    rounds,     \* how many times the loop has set the presence
    rng         \* which draws thread_rng makes: "any" or "ends"

\* The state of the message tasks and the state of the status loop.
hvars == << devMode, feed, store, prefixes, lock, pc, msg, prefix, data,
            result, err, log >>

rvars == << statuses, statusLock, rpc, current, presence, sleepFor, rounds, rng >>

vars == << hvars, rvars >>

\* The message events the gateway may deliver.
Inbound ==
    IF feed = "all" THEN Messages
    ELSE IF feed = "one-guild" THEN GuildMessages
    ELSE RaceMessages

None      == [ some |-> FALSE, v |-> <<>> ]
Some(x)   == [ some |-> TRUE, v |-> x ]

NoData ==
    [ some |-> FALSE, content |-> <<>>, command |-> <<>>, react_cmd |-> <<>>,
      sub_cmd |-> <<>>, prefix |-> <<>> ]

\* One entry of a task's log: an operation, whether it succeeded, the channel
\* a message went to and the text sent.
Event(op, ok, channel, body) ==
    [ op |-> op, ok |-> ok, channel |-> channel, body |-> body ]

\* The first-contact notification (its backquotes left out).
NotifyText == "I have set the prefix to h!. You can change it with h!prefix"

Count(h, op) == Cardinality({ i \in DOMAIN log[h] : log[h][i].op = op })
Did(h, op)   == \E i \in DOMAIN log[h] : log[h][i].op = op
DidOk(h, op) == \E i \in DOMAIN log[h] : log[h][i].op = op /\ log[h][i].ok
Index(h, op) == CHOOSE i \in DOMAIN log[h] : log[h][i].op = op

InitStores == SeqsUpTo(PrefixDocs, MaxInitDocs)

\* main: the state the client is started with.
InitShared ==
    /\ devMode \in BOOLEAN
    /\ store \in InitStores
    /\ prefixes = LoadPrefixes(store)
    /\ lock = [ readers |-> {}, writer |-> {} ]
    /\ msg = [ h \in Handlers |-> NoMessage ]
    /\ prefix = [ h \in Handlers |-> None ]
    /\ data = [ h \in Handlers |-> NoData ]
    /\ result = [ h \in Handlers |-> "none" ]
    /\ err = [ h \in Handlers |-> "" ]
    /\ log = [ h \in Handlers |-> <<>> ]

\* The status loop is not part of the run.
RotatorOff ==
    /\ statuses = <<>>
    /\ statusLock = {}
    /\ rpc = "off"
    /\ current = None
    /\ presence = NoActivity
    /\ sleepFor = 0
    /\ rounds = 0
    /\ rng = "ends"

\* One task handles the events, one after the other.
Init ==
    /\ InitShared
    /\ RotatorOff
    /\ feed = "all"
    /\ pc = [ h \in Handlers |-> IF h = "h1" THEN "idle" ELSE "off" ]

\* Two tasks handle first-contact traffic at the same time.
InitRace ==
    /\ InitShared
    /\ RotatorOff
    /\ feed = "first-contact"
    /\ pc = [ h \in Handlers |-> "idle" ]

(***************************************************************************)
(* Steps of one Handler::message task.  A step runs from one suspension    *)
(* point (an await that can suspend) to the next.                          *)
(***************************************************************************)
Logged(h, e) == [ log EXCEPT ![h] = Append(@, e) ]

\* Variant: the document carries the prefix of the running mode.
PrefixDocOf_ModePrefix(m) ==
    [ server_id |-> GuildIdToString(m.guild),
      prefix |-> IF devMode THEN DevPrefix ELSE DefaultPrefix ]

\* register_prefix: the document it builds for the guild of the message.
PrefixDocOf(m) ==
    [ server_id |-> GuildIdToString(m.guild), prefix |-> DefaultPrefix ]

\* Handler::message is called with an event; handle_message runs up to its
\* first lock request.
Receive(h) ==
    /\ pc[h] = "idle"
    /\ \E m \in Inbound :
        /\ msg' = [ msg EXCEPT ![h] = m ]
        /\ IF IsIgnored(m)
           THEN /\ pc' = [ pc EXCEPT ![h] = "done" ]
                /\ result' = [ result EXCEPT ![h] = "ok" ]
           ELSE /\ pc' = [ pc EXCEPT ![h] =
                            IF m.guild # NoGuild THEN "lookup" ELSE "resolve" ]
                /\ result' = [ result EXCEPT ![h] = "none" ]
    /\ prefix' = [ prefix EXCEPT ![h] = None ]
    /\ data' = [ data EXCEPT ![h] = NoData ]
    /\ err' = [ err EXCEPT ![h] = "" ]
    /\ log' = [ log EXCEPT ![h] = <<>> ]
    /\ UNCHANGED << rvars, devMode, feed, store, prefixes, lock >>

\* handle_message: handler.prefixes.read().await of the first-contact check.
LookupAcquire(h) ==
    /\ pc[h] = "lookup"
    /\ lock.writer = {}
    /\ lock' = [ lock EXCEPT !.readers = @ \cup {h} ]
    /\ pc' = [ pc EXCEPT ![h] = "contains_key" ]
    /\ UNCHANGED << rvars, devMode, feed, store, prefixes, msg, prefix, data,
                    result, err, log >>

\* Variant: the read guard lives as long as the block of the condition.
ContainsKey_KeepsGuard(h) ==
    /\ pc[h] = "contains_key"
    /\ LET absent == NeedsRegistration(msg[h].guild, prefixes)
       IN  /\ log' = Logged(h, Event("contains_key", ~absent, "", ""))
           /\ pc' = [ pc EXCEPT ![h] = IF absent THEN "insert_one" ELSE "resolve" ]
           /\ lock' = IF absent THEN lock
                      ELSE [ lock EXCEPT !.readers = @ \ {h} ]
    /\ UNCHANGED << rvars, devMode, feed, store, prefixes, msg, prefix, data,
                    result, err >>

\* handle_message: contains_key under the read guard, which is dropped at
\* the end of the condition.
ContainsKey(h) ==
    /\ pc[h] = "contains_key"
    /\ LET absent == NeedsRegistration(msg[h].guild, prefixes)
       IN  /\ log' = Logged(h, Event("contains_key", ~absent, "", ""))
           /\ pc' = [ pc EXCEPT ![h] = IF absent THEN "insert_one" ELSE "resolve" ]
    /\ lock' = [ lock EXCEPT !.readers = @ \ {h} ]
    /\ UNCHANGED << rvars, devMode, feed, store, prefixes, msg, prefix, data,
                    result, err >>

\* Variant: the error of insert_one is returned by handle_message.
InsertOne_PropagatesError(h) ==
    /\ pc[h] = "insert_one"
    /\ \E ok \in BOOLEAN :
        /\ store' = IF ok THEN Append(store, [ server_id |-> GuildIdToString(msg[h].guild),
                                               prefix |-> DefaultPrefix ])
                    ELSE store
        /\ log' = [ log EXCEPT ![h] = Append(@, Event("insert_one", ok, "", "")) ]
        /\ pc' = [ pc EXCEPT ![h] = IF ok THEN "write" ELSE "error_log" ]
        /\ result' = [ result EXCEPT ![h] = IF ok THEN @ ELSE "err" ]
        /\ err' = [ err EXCEPT ![h] = IF ok THEN @ ELSE "insert failed" ]
    /\ UNCHANGED << rvars, devMode, feed, prefixes, lock, msg, prefix, data >>

\* Variant: the notification is sent after a failed registration too.
InsertOne_NotifiesOnFailure(h) ==
    /\ pc[h] = "insert_one"
    /\ \E ok \in BOOLEAN :
        /\ store' = IF ok THEN Append(store, [ server_id |-> GuildIdToString(msg[h].guild),
                                               prefix |-> DefaultPrefix ])
                    ELSE store
        /\ log' = [ log EXCEPT ![h] = Append(@, Event("insert_one", ok, "", "")) ]
        /\ pc' = [ pc EXCEPT ![h] = IF ok THEN "write" ELSE "notify" ]
    /\ UNCHANGED << rvars, devMode, feed, prefixes, lock, msg, prefix, data,
                    result, err >>

\* Variant: the result of insert_one is not propagated; the map is written
\* after a failed insert too.
InsertOne_AdvancesOnFailure(h) ==
    /\ pc[h] = "insert_one"
    /\ \E ok \in BOOLEAN :
        /\ store' = IF ok THEN Append(store, [ server_id |-> GuildIdToString(msg[h].guild),
                                               prefix |-> DefaultPrefix ])
                    ELSE store
        /\ log' = [ log EXCEPT ![h] = Append(@, Event("insert_one", ok, "", "")) ]
        /\ pc' = [ pc EXCEPT ![h] = "write" ]
    /\ UNCHANGED << rvars, devMode, feed, prefixes, lock, msg, prefix, data,
                    result, err >>

\* register_prefix: prefix_coll.insert_one(..).await?  On failure the
\* function returns the error and handle_message goes on to resolve.
InsertOne(h) ==
    /\ pc[h] = "insert_one"
    /\ \E ok \in BOOLEAN :
        /\ store' = IF ok THEN Append(store, PrefixDocOf(msg[h])) ELSE store
        /\ log' = Logged(h, Event("insert_one", ok, "", ""))
        /\ pc' = [ pc EXCEPT ![h] = IF ok THEN "write" ELSE "resolve" ]
    /\ UNCHANGED << rvars, devMode, feed, prefixes, lock, msg, prefix, data,
                    result, err >>

\* register_prefix: handler.prefixes.write().await
WriteAcquire(h) ==
    /\ pc[h] = "write"
    /\ lock.writer = {} /\ lock.readers = {}
    /\ lock' = [ lock EXCEPT !.writer = {h} ]
    /\ pc' = [ pc EXCEPT ![h] = "map_insert" ]
    /\ UNCHANGED << rvars, devMode, feed, store, prefixes, msg, prefix, data,
                    result, err, log >>

\* register_prefix: the insert under the write guard, and Ok(..).
MapInsertStep(h) ==
    /\ pc[h] = "map_insert"
    /\ LET doc == PrefixDocOf(msg[h])
       IN  prefixes' = MapInsert(prefixes, doc.server_id, doc.prefix)
    /\ lock' = [ lock EXCEPT !.writer = @ \ {h} ]
    /\ log' = Logged(h, Event("map_insert", TRUE, "", ""))
    /\ pc' = [ pc EXCEPT ![h] = "notify" ]
    /\ UNCHANGED << rvars, devMode, feed, store, msg, prefix, data, result, err >>

\* handle_message: the first-contact notification; a failed send is
\* returned as the error "Failed to send message".
Notify(h) ==
    /\ pc[h] = "notify"
    /\ \E ok \in BOOLEAN :
        /\ log' = Logged(h, Event("notify", ok, msg[h].channel, NotifyText))
        /\ IF ok
           THEN /\ pc' = [ pc EXCEPT ![h] = "resolve" ]
                /\ UNCHANGED << result, err >>
           ELSE /\ pc' = [ pc EXCEPT ![h] = "error_log" ]
                /\ result' = [ result EXCEPT ![h] = "err" ]
                /\ err' = [ err EXCEPT ![h] = "Failed to send message" ]
    /\ UNCHANGED << rvars, devMode, feed, store, prefixes, lock, msg, prefix, data >>

\* handle_message: handler.prefixes.read().await of the resolution, taken
\* only outside development mode and for a guild message.
ResolveAcquire(h) ==
    /\ pc[h] = "resolve"
    /\ ~devMode /\ msg[h].guild # NoGuild
    /\ lock.writer = {}
    /\ lock' = [ lock EXCEPT !.readers = @ \cup {h} ]
    /\ pc' = [ pc EXCEPT ![h] = "get" ]
    /\ UNCHANGED << rvars, devMode, feed, store, prefixes, msg, prefix, data,
                    result, err, log >>

\* handle_message: the prefix, the test for an invocation, and
\* handle_command up to the call of the implementation.
Resolve(h) ==
    /\ \/ pc[h] = "get"
       \/ pc[h] = "resolve" /\ (devMode \/ msg[h].guild = NoGuild)
    /\ LET p       == ResolvedPrefix(devMode, msg[h].guild, prefixes)
           content == Tokens(msg[h].content)
           command == CommandName(content, p)
       IN  /\ prefix' = [ prefix EXCEPT ![h] = Some(p) ]
           /\ IF IsInvocation(msg[h].content, p)
              THEN /\ data' = [ data EXCEPT ![h] =
                         [ some |-> TRUE, content |-> content,
                           command |-> command,
                           react_cmd |-> ReactCmd(content),
                           sub_cmd |-> SubCmd(content), prefix |-> p ] ]
                   /\ pc' = [ pc EXCEPT ![h] =
                         IF Route(command) = "none" THEN "done" ELSE Route(command) ]
                   /\ result' = [ result EXCEPT ![h] =
                         IF Route(command) = "none" THEN "ok" ELSE "none" ]
              ELSE /\ pc' = [ pc EXCEPT ![h] = "done" ]
                   /\ result' = [ result EXCEPT ![h] = "ok" ]
                   /\ UNCHANGED data
    /\ lock' = [ lock EXCEPT !.readers = @ \ {h} ]
    /\ log' = Logged(h, Event("resolve", TRUE, "", ""))
    /\ UNCHANGED << rvars, devMode, feed, store, prefixes, msg, err >>

\* handle_command: data.msg.channel_id.say(&data.ctx, "Pong!").await?
Ping(h) ==
    /\ pc[h] = "ping"
    /\ \E ok \in BOOLEAN :
        /\ log' = Logged(h, Event("ping", ok, msg[h].channel, "Pong!"))
        /\ IF ok
           THEN /\ pc' = [ pc EXCEPT ![h] = "done" ]
                /\ result' = [ result EXCEPT ![h] = "ok" ]
                /\ UNCHANGED err
           ELSE /\ pc' = [ pc EXCEPT ![h] = "error_log" ]
                /\ result' = [ result EXCEPT ![h] = "err" ]
                /\ err' = [ err EXCEPT ![h] = "send failed" ]
    /\ UNCHANGED << rvars, devMode, feed, store, prefixes, lock, msg, prefix, data >>

\* commands::misc::user_avatar: it succeeds or returns an error.
UserAvatar(h) ==
    /\ pc[h] = "pfp"
    /\ \E ok \in BOOLEAN :
        /\ log' = Logged(h, Event("pfp", ok, msg[h].channel, ""))
        /\ IF ok
           THEN /\ pc' = [ pc EXCEPT ![h] = "done" ]
                /\ result' = [ result EXCEPT ![h] = "ok" ]
                /\ UNCHANGED err
           ELSE /\ pc' = [ pc EXCEPT ![h] = "error_log" ]
                /\ result' = [ result EXCEPT ![h] = "err" ]
                /\ err' = [ err EXCEPT ![h] = "user_avatar failed" ]
    /\ UNCHANGED << rvars, devMode, feed, store, prefixes, lock, msg, prefix, data >>

\* Variant: a failure of error_log is escalated again.
ErrorLog_ReEscalates(h) ==
    /\ pc[h] = "error_log"
    /\ \E ok \in BOOLEAN :
        /\ log' = [ log EXCEPT ![h] =
                      Append(@, Event("error_log", ok, ErrorChannel(msg[h].channel), err[h])) ]
        /\ pc' = [ pc EXCEPT ![h] = IF ok THEN "reply" ELSE "error_log" ]
    /\ UNCHANGED << rvars, devMode, feed, store, prefixes, lock, msg, prefix, data,
                    result, err >>

\* Variant: a failure of error_log ends the handling, without the reply.
ErrorLog_StopsOnFailure(h) ==
    /\ pc[h] = "error_log"
    /\ \E ok \in BOOLEAN :
        /\ log' = [ log EXCEPT ![h] =
                      Append(@, Event("error_log", ok, ErrorChannel(msg[h].channel), err[h])) ]
        /\ pc' = [ pc EXCEPT ![h] = IF ok THEN "reply" ELSE "done" ]
    /\ UNCHANGED << rvars, devMode, feed, store, prefixes, lock, msg, prefix, data,
                    result, err >>

\* Handler::message, Err arm: error_log posts the report; its own failure
\* is only logged.
ErrorLog(h) ==
    /\ pc[h] = "error_log"
    /\ \E ok \in BOOLEAN :
        log' = Logged(h, Event("error_log", ok, ErrorChannel(msg[h].channel), err[h]))
    /\ pc' = [ pc EXCEPT ![h] = "reply" ]
    /\ UNCHANGED << rvars, devMode, feed, store, prefixes, lock, msg, prefix, data,
                    result, err >>

\* Handler::message, Err arm: msg.channel_id.say(&ctx.http, e); its failure
\* is only logged.
Reply(h) ==
    /\ pc[h] = "reply"
    /\ \E ok \in BOOLEAN :
        log' = Logged(h, Event("reply", ok, msg[h].channel, err[h]))
    /\ pc' = [ pc EXCEPT ![h] = "done" ]
    /\ UNCHANGED << rvars, devMode, feed, store, prefixes, lock, msg, prefix, data,
                    result, err >>

\* Handler::message returns: the task and what it held are gone.
Return(h) ==
    /\ pc[h] = "done"
    /\ pc' = [ pc EXCEPT ![h] = "idle" ]
    /\ msg' = [ msg EXCEPT ![h] = NoMessage ]
    /\ prefix' = [ prefix EXCEPT ![h] = None ]
    /\ data' = [ data EXCEPT ![h] = NoData ]
    /\ result' = [ result EXCEPT ![h] = "none" ]
    /\ err' = [ err EXCEPT ![h] = "" ]
    /\ log' = [ log EXCEPT ![h] = <<>> ]
    /\ UNCHANGED << rvars, devMode, feed, store, prefixes, lock >>

(***************************************************************************)
(* Steps of the status loop.  Handler::ready starts it; a step runs from   *)
(* one suspension point to the next.                                       *)
(***************************************************************************)
\* Variant: the draw is made in minutes.
random_int_from_range_Minutes(min, max) ==
    { n \div 60 : n \in min..max }

\* random_int_from_range: the values gen_range(min..=max) can return.
random_int_from_range(min, max) ==
    IF rng = "any" THEN min..max ELSE {min, max}

\* Handler::ready: the gateway signals readiness and the loop is started.
Ready ==
    /\ rpc = "not_ready"
    /\ rpc' = "read"
    /\ UNCHANGED << statuses, statusLock, current, presence, sleepFor,
                    rounds, rng >>
    /\ UNCHANGED hvars

\* statuses.read().await: the loop is given a read guard.
StatusAcquire ==
    /\ rpc = "read"
    /\ statusLock' = statusLock \cup {"loop"}
    /\ rpc' = "choose"
    /\ UNCHANGED << statuses, current, presence, sleepFor, rounds, rng >>
    /\ UNCHANGED hvars

\* let random_status = random_element_vec(..): an element is chosen and the
\* guard, a temporary of the statement, is dropped; with no element the
\* error is logged and the loop returns.
Sample ==
    /\ rpc = "choose"
    /\ \E r \in random_element_vec(statuses) :
        /\ current' = r
        /\ rpc' = IF r.some THEN "set_activity" ELSE "exited"
    /\ statusLock' = statusLock \ {"loop"}
    /\ UNCHANGED << statuses, presence, sleepFor, rounds, rng >>
    /\ UNCHANGED hvars

\* ctx.set_activity(activity).await, then the sleep is started with the
\* number of seconds drawn.
SetActivity ==
    /\ rpc = "set_activity"
    /\ presence' = get_activity(current.v.type, current.v.status)
    /\ rounds' = IF rounds < MaxRounds THEN rounds + 1 ELSE rounds
    /\ \E n \in random_int_from_range(SleepMin, SleepMax) : sleepFor' = n
    /\ rpc' = "sleep"
    /\ UNCHANGED << statuses, statusLock, current, rng >>
    /\ UNCHANGED hvars

\* Variant: the loop ends after the sleep.
Wake_Returns ==
    /\ rpc = "sleep"
    /\ rpc' = "exited"
    /\ sleepFor' = 0
    /\ current' = None
    /\ UNCHANGED << statuses, statusLock, presence, rounds, rng >>
    /\ UNCHANGED hvars

\* The sleep is over: the next iteration of the loop begins.
Wake ==
    /\ rpc = "sleep"
    /\ rpc' = "read"
    /\ sleepFor' = 0
    /\ current' = None
    /\ UNCHANGED << statuses, statusLock, presence, rounds, rng >>
    /\ UNCHANGED hvars

NextRotator ==
    \/ Ready
    \/ StatusAcquire
    \/ Sample
    \/ SetActivity
    \/ Wake

Next ==
    \E h \in Handlers :
        \/ Receive(h)
        \/ Return(h)
        \/ LookupAcquire(h)
        \/ ContainsKey(h)
        \/ InsertOne(h)
        \/ WriteAcquire(h)
        \/ MapInsertStep(h)
        \/ Notify(h)
        \/ ResolveAcquire(h)
        \/ Resolve(h)
        \/ Ping(h)
        \/ UserAvatar(h)
        \/ ErrorLog(h)
        \/ Reply(h)

Spec == Init /\ [][Next]_vars

SpecRace == InitRace /\ [][Next]_vars

\* No message task runs.
HandlersOff ==
    /\ devMode = FALSE
    /\ feed = "all"
    /\ store = <<>>
    /\ prefixes = LoadPrefixes(store)
    /\ lock = [ readers |-> {}, writer |-> {} ]
    /\ pc = [ h \in Handlers |-> "off" ]
    /\ msg = [ h \in Handlers |-> NoMessage ]
    /\ prefix = [ h \in Handlers |-> None ]
    /\ data = [ h \in Handlers |-> NoData ]
    /\ result = [ h \in Handlers |-> "none" ]
    /\ err = [ h \in Handlers |-> "" ]
    /\ log = [ h \in Handlers |-> <<>> ]

\* main: the statuses are loaded once, before the client is started; the
\* draws of the run are of the kind given.
InitLoop(draws) ==
    /\ HandlersOff
    /\ statuses \in StatusSnapshots
    /\ statusLock = {}
    /\ rpc = "not_ready"
    /\ current = None
    /\ presence = NoActivity
    /\ sleepFor = 0
    /\ rounds = 0
    /\ rng = draws

InitRotator == InitLoop("any")

\* The status loop alone.
SpecRotator == InitRotator /\ [][NextRotator]_vars

\* The status loop is a task of the runtime: a step it can take is taken.
\* The sleeps of these runs are the shortest and the longest.
FairRotator ==
    InitLoop("ends") /\ [][NextRotator]_vars /\ WF_vars(NextRotator)

\* The snapshots of the runs in which messages are handled as well.
SystemSnapshots ==
    { <<>>, << [ type |-> T_WATCHING, status |-> "Star Wars" ] >> }

\* Two message tasks and the status loop.
InitSystem ==
    /\ devMode \in BOOLEAN
    /\ store = <<>>
    /\ prefixes = LoadPrefixes(store)
    /\ lock = [ readers |-> {}, writer |-> {} ]
    /\ msg = [ h \in Handlers |-> NoMessage ]
    /\ prefix = [ h \in Handlers |-> None ]
    /\ data = [ h \in Handlers |-> NoData ]
    /\ result = [ h \in Handlers |-> "none" ]
    /\ err = [ h \in Handlers |-> "" ]
    /\ log = [ h \in Handlers |-> <<>> ]
    /\ feed = "one-guild"
    /\ pc = [ h \in Handlers |-> "idle" ]
    /\ statuses \in SystemSnapshots
    /\ statusLock = {}
    /\ rpc = "not_ready"
    /\ current = None
    /\ presence = NoActivity
    /\ sleepFor = 0
    /\ rounds = 0
    /\ rng = "ends"

NextSystem == Next \/ NextRotator

SpecSystem == InitSystem /\ [][NextSystem]_vars

TypeOK ==
    /\ devMode \in BOOLEAN
    /\ DOMAIN prefixes \subseteq { GuildIdToString(g) : g \in Guilds }
    /\ lock.readers \subseteq Handlers /\ lock.writer \subseteq Handlers
    /\ Cardinality(lock.writer) <= 1
    /\ lock.writer = {} \/ lock.readers = {}
    /\ \A h \in Handlers : result[h] \in {"none", "ok", "err"}
    /\ statusLock \subseteq {"loop"}
    /\ rpc \in {"off", "not_ready", "read", "choose", "set_activity",
                "sleep", "exited"}
    /\ sleepFor \in Nat /\ rounds \in 0..(MaxRounds + 1)

(***************************************************************************)
(* Vocabulary of the properties.                                           *)
(***************************************************************************)
Done(h) == pc[h] = "done"

\* The first-contact check of this handling found no entry / an entry.
SawAbsent(h)  == \E i \in DOMAIN log[h] :
                    log[h][i].op = "contains_key" /\ ~log[h][i].ok
SawPresent(h) == \E i \in DOMAIN log[h] :
                    log[h][i].op = "contains_key" /\ log[h][i].ok

Failed(h, op) == \E i \in DOMAIN log[h] : log[h][i].op = op /\ ~log[h][i].ok

GuildKey(h) == GuildIdToString(msg[h].guild)

\* The text with one leading occurrence of p taken off, and nothing else.
StripLeading(s, p) ==
    IF StartsWith(s, p) THEN SubSeq(s, Len(p) + 1, Len(s)) ELSE s

OnlyWhitespace(s) == \A i \in DOMAIN s : IsWhitespace(s[i])

(***************************************************************************)
(* C1.  First contact: a guild with no entry in the prefix map.            *)
(***************************************************************************)
\* C1 as stated: when a handling that found no entry for its guild has
\* finished, the prefix was resolved to "h!", exactly one insert was
\* attempted against the store and exactly one insertion was made into the
\* in-memory map.
C1_AsStated ==
    \A h \in Handlers :
        Done(h) /\ SawAbsent(h) =>
            /\ prefix[h] = Some(DefaultPrefix)
            /\ Count(h, "insert_one") = 1
            /\ Count(h, "map_insert") = 1

\* C1 amended: a handling that found no entry for its guild attempts
\* exactly one insert against the store; it inserts into the in-memory map
\* exactly once when that insert succeeded and not at all when it failed;
\* the prefix is resolved unless the notification failed to send, and is
\* then "h!" outside development mode and "h?" in it.
C1_FirstContact ==
    \A h \in Handlers :
        Done(h) /\ SawAbsent(h) =>
            /\ Count(h, "insert_one") = 1
            /\ Count(h, "map_insert") = (IF DidOk(h, "insert_one") THEN 1 ELSE 0)
            /\ prefix[h].some <=> ~Failed(h, "notify")
            /\ prefix[h].some =>
                  prefix[h].v = (IF devMode THEN DevPrefix ELSE DefaultPrefix)

C1_Witness ==
    \E h \in Handlers :
        /\ Done(h) /\ SawAbsent(h)
        /\ DidOk(h, "insert_one") /\ Count(h, "map_insert") = 1
        /\ prefix[h] = Some(DefaultPrefix)
        /\ GuildKey(h) \in DOMAIN prefixes

(***************************************************************************)
(* C2.  A guild that already has an entry.                                 *)
(***************************************************************************)
\* C2 as stated: when a handling that found an entry P for its guild has
\* finished, the prefix was resolved to P in lower case, no insert was
\* attempted against the store and the handling made no insertion into the
\* map.
C2_AsStated ==
    \A h \in Handlers :
        Done(h) /\ SawPresent(h) =>
            /\ prefix[h] = Some(ToLowercase(prefixes[GuildKey(h)]))
            /\ Count(h, "insert_one") = 0
            /\ Count(h, "map_insert") = 0

\* C2 amended: as stated when development mode is off; in development mode
\* the prefix is "h?", still with no insert and no insertion into the map.
C2_ExistingEntry ==
    \A h \in Handlers :
        Done(h) /\ SawPresent(h) =>
            /\ prefix[h] = Some(IF devMode THEN DevPrefix
                                ELSE ToLowercase(prefixes[GuildKey(h)]))
            /\ Count(h, "insert_one") = 0
            /\ Count(h, "map_insert") = 0

C2_Witness ==
    \E h \in Handlers :
        /\ Done(h) /\ SawPresent(h) /\ ~devMode
        /\ prefixes[GuildKey(h)] = <<"H", "!">>
        /\ prefix[h] = Some(<<"h", "!">>)

C4_AsStated ==
    \A h \in Handlers :
        Done(h) /\ msg[h].guild = NoGuild /\ ~msg[h].bot
                /\ ~OnlyWhitespace(msg[h].content) =>
            /\ prefix[h] = Some(DefaultPrefix)
            /\ ~Did(h, "insert_one") /\ ~Did(h, "map_insert")

\* C4 amended: a finished handling of a direct message resolved the prefix
\* to "h!" outside development mode and to "h?" in development mode (the
\* development-mode step comes first), whatever the map holds, and attempted
\* no registration.
C4_DirectMessage ==
    \A h \in Handlers :
        Done(h) /\ msg[h].guild = NoGuild /\ ~msg[h].bot
                /\ ~OnlyWhitespace(msg[h].content) =>
            /\ prefix[h] = Some(IF devMode THEN DevPrefix ELSE DefaultPrefix)
            /\ ~Did(h, "insert_one") /\ ~Did(h, "map_insert")

C4_Witness ==
    \E h \in Handlers :
        /\ Done(h) /\ msg[h].guild = NoGuild /\ ~msg[h].bot
        /\ devMode /\ prefix[h] = Some(DevPrefix)
        /\ DOMAIN prefixes # {}

(***************************************************************************)
(* C5.  Development mode overrides the stored prefix.                      *)
(***************************************************************************)
\* C5: in development mode every prefix resolved for a guild message is
\* "h?", whatever the map holds for the guild, and resolving again in the
\* current state gives the prefix the handling got.
C5_DevOverrides ==
    \A h \in Handlers :
        devMode /\ prefix[h].some /\ msg[h].guild # NoGuild =>
            /\ prefix[h].v = DevPrefix
            /\ ResolvedPrefix(devMode, msg[h].guild, prefixes) = prefix[h].v

C5_Witness ==
    \E h \in Handlers :
        /\ devMode /\ prefix[h] = Some(DevPrefix) /\ msg[h].guild # NoGuild
        /\ GuildKey(h) \in DOMAIN prefixes
        /\ prefixes[GuildKey(h)] = <<"p">>

(***************************************************************************)
(* C6.  A message that does not start with the prefix.                     *)
(***************************************************************************)
\* C6: when the lower-cased text of a handled message does not start with
\* the prefix resolved for it, no command implementation was invoked and
\* handle_message returned Ok.
C6_NoPrefixNoCommand ==
    \A h \in Handlers :
        /\ pc[h] \notin {"idle", "off"}
        /\ prefix[h].some
        /\ ~StartsWith(ToLowercase(msg[h].content), prefix[h].v)
        => /\ ~Did(h, "ping") /\ ~Did(h, "pfp")
           /\ ~data[h].some
           /\ Done(h) /\ result[h] = "ok"

C6_Witness ==
    \E h \in Handlers :
        /\ Done(h) /\ prefix[h] = Some(DefaultPrefix)
        /\ msg[h].content = T_sp_hping
        /\ result[h] = "ok" /\ ~data[h].some

(***************************************************************************)
(* C7.  The command name.                                                  *)
(***************************************************************************)
\* C7: for an invocation, the command name given to handle_command is the
\* lower-cased first token with the leading prefix taken off and nothing
\* else removed, and the implementation of exactly that name is the one
\* invoked.
C7_CommandName ==
    \A h \in Handlers :
        data[h].some =>
            LET name == StripLeading(data[h].content[1], data[h].prefix)
            IN  /\ data[h].command = name
                /\ Did(h, "ping") => name = CmdPing
                /\ Did(h, "pfp") => name = CmdPfp

\* The two named cases of C7, which the code does satisfy: "h!ping" under
\* the prefix "h!" invokes ping with the command name "ping", and
\* "H!PFP <@123>" invokes pfp with the sub-command "<@123>".
C7_NamedCases ==
    \A h \in Handlers :
        prefix[h] = Some(DefaultPrefix) =>
            /\ msg[h].content = T_hping =>
                  /\ data[h].some /\ data[h].command = CmdPing
                  /\ pc[h] = "ping" \/ Did(h, "ping")
                  /\ ~Did(h, "pfp")
            /\ msg[h].content = T_HPFP =>
                  /\ data[h].some /\ data[h].command = CmdPfp
                  /\ data[h].sub_cmd = <<"<", "@", "1", "2", "3", ">">>
                  /\ pc[h] = "pfp" \/ Did(h, "pfp")
                  /\ ~Did(h, "ping")

(***************************************************************************)
(* C8.  Unmatched command names.                                           *)
(***************************************************************************)
\* C8: an invocation whose command name is neither "ping" nor "pfp" runs no
\* implementation, returns Ok and is not escalated; and no handling runs
\* more than one implementation.
C8_UnmatchedIgnored ==
    \A h \in Handlers :
        /\ data[h].some /\ data[h].command \notin {CmdPing, CmdPfp}
           => /\ ~Did(h, "ping") /\ ~Did(h, "pfp")
              /\ Done(h) /\ result[h] = "ok"
              /\ ~Did(h, "error_log") /\ ~Did(h, "reply")
        /\ Count(h, "ping") + Count(h, "pfp") <= 1

C8_Witness ==
    \E h \in Handlers :
        /\ Done(h) /\ data[h].some
        /\ data[h].command = <<"p", "r", "e", "f", "i", "x">>
        /\ result[h] = "ok"

(***************************************************************************)
(* C9.  Messages of bots and messages without tokens.                      *)
(***************************************************************************)
\* C9: the handling of a message written by a bot, or of a text with no
\* token, returns Ok having done nothing: no lookup, no insert, no
\* insertion into the map, no message sent, no prefix resolved, no command.
C9_IgnoredIsNoOp ==
    \A h \in Handlers :
        /\ pc[h] \notin {"idle", "off"}
        /\ msg[h].bot \/ OnlyWhitespace(msg[h].content)
        => /\ Done(h) /\ result[h] = "ok"
           /\ log[h] = <<>>
           /\ ~prefix[h].some /\ ~data[h].some

C9_Witness ==
    \E h \in Handlers :
        /\ Done(h) /\ ~msg[h].bot /\ msg[h].content = T_blank
        /\ msg[h].guild # NoGuild /\ GuildKey(h) \notin DOMAIN prefixes
        /\ result[h] = "ok"

(***************************************************************************)
(* C10.  An error of a command implementation.                             *)
(***************************************************************************)
\* C10: when a command implementation failed, handle_message returned the
\* error, and by the time the task is done error_log was attempted once and
\* then the reply with the error text to the channel of the message was
\* attempted once, whether or not error_log succeeded.
C10_ErrorEscalated ==
    \A h \in Handlers :
        Failed(h, "ping") \/ Failed(h, "pfp") =>
            /\ result[h] = "err"
            /\ pc[h] \in {"error_log", "reply", "done"}
            /\ pc[h] \in {"reply", "done"} => Count(h, "error_log") = 1
            /\ Done(h) =>
                  /\ Count(h, "reply") = 1
                  /\ Index(h, "error_log") < Index(h, "reply")
                  /\ log[h][Index(h, "reply")].body = err[h]
                  /\ log[h][Index(h, "reply")].channel = msg[h].channel

C10_Witness ==
    \E h \in Handlers :
        /\ Done(h) /\ Failed(h, "ping")
        /\ Failed(h, "error_log")
        /\ Did(h, "reply")

(***************************************************************************)
(* C11.  A failure of the escalation itself.                               *)
(***************************************************************************)
\* C11: error_log is attempted at most once in a handling; when its post
\* fails the task goes on to the reply and to its end, with no second
\* escalation.
C11_NoReEscalation ==
    \A h \in Handlers :
        /\ Count(h, "error_log") <= 1
        /\ Failed(h, "error_log") =>
              /\ pc[h] \in {"reply", "done"}
              /\ Done(h) => Count(h, "reply") = 1
                            /\ Index(h, "error_log") < Index(h, "reply")

C11_Witness ==
    \E h \in Handlers :
        /\ Done(h) /\ Failed(h, "error_log") /\ Failed(h, "reply")
        /\ Count(h, "error_log") = 1

(***************************************************************************)
(* C12.  Prefix resolution and the outcome of first contact.               *)
(***************************************************************************)
WellFormed(h) == ~msg[h].bot /\ ~OnlyWhitespace(msg[h].content)

Returned(h) == pc[h] \in {"error_log", "reply", "done"}

\* C12 as stated: handle_message never returns before the prefix is
\* resolved, whatever insert_one and the notification did; after a failed
\* insert the prefix is "h!"; and a text starting with the prefix is
\* dispatched.
C12_AsStated ==
    \A h \in Handlers :
        Returned(h) /\ WellFormed(h) =>
            /\ prefix[h].some
            /\ Failed(h, "insert_one") => prefix[h].v = DefaultPrefix
            /\ StartsWith(ToLowercase(msg[h].content), prefix[h].v) => data[h].some

\* C12 amended: handle_message returns before the prefix is resolved only
\* when the notification failed to send; a failed insert never does that:
\* the prefix is then resolved to "h!" outside development mode and to "h?"
\* in it; and a text starting with the resolved prefix is dispatched.
C12_ResolutionOutcome ==
    \A h \in Handlers :
        Returned(h) /\ WellFormed(h) =>
            /\ prefix[h].some <=> ~Failed(h, "notify")
            /\ Failed(h, "insert_one") =>
                  prefix[h] = Some(IF devMode THEN DevPrefix ELSE DefaultPrefix)
            /\ prefix[h].some
                  /\ StartsWith(ToLowercase(msg[h].content), prefix[h].v)
                  => data[h].some

C12_Witness ==
    \E h \in Handlers :
        /\ Done(h) /\ Failed(h, "insert_one")
        /\ prefix[h] = Some(DefaultPrefix)
        /\ DidOk(h, "ping")

(***************************************************************************)
(* C13.  The in-memory map after a failed insert.                          *)
(***************************************************************************)
\* C13 as stated: after a handling whose insert_one failed, the map holds
\* the guild with "h!".
C13_AsStated ==
    \A h \in Handlers :
        Done(h) /\ Failed(h, "insert_one") =>
            /\ GuildKey(h) \in DOMAIN prefixes
            /\ prefixes[GuildKey(h)] = DefaultPrefix

\* C13 amended: a handling whose insert_one failed does not write the map;
\* with one task at work the guild is still without an entry, so the next
\* message of the guild meets the first-contact check again.
C13_FailedInsertNoEntry ==
    \A h \in Handlers :
        Failed(h, "insert_one") =>
            /\ ~Did(h, "map_insert") /\ ~Did(h, "notify")
            /\ GuildKey(h) \notin DOMAIN prefixes
            /\ NeedsRegistration(msg[h].guild, prefixes)

C13_Witness ==
    \E h \in Handlers :
        /\ Done(h) /\ Failed(h, "insert_one")
        /\ GuildKey(h) \notin DOMAIN prefixes
        /\ result[h] = "ok"

(***************************************************************************)
(* C16.  Where the report of error_log is posted.                          *)
(***************************************************************************)
\* C16: a handling posts at most one report, and posts it to the channel of
\* the message when that channel is a development channel and to the log
\* channel otherwise.
C16_ReportChannel ==
    \A h \in Handlers :
        /\ Count(h, "error_log") <= 1
        /\ \A i \in DOMAIN log[h] :
              log[h][i].op = "error_log" =>
                  log[h][i].channel =
                      (IF msg[h].channel \in DevChannels
                       THEN msg[h].channel ELSE LogChannel)

C16_Witness ==
    \E h \in Handlers :
        /\ Done(h) /\ ~devMode /\ msg[h].channel \in DevChannels
        /\ Did(h, "error_log")
        /\ log[h][Index(h, "error_log")].channel = msg[h].channel

(***************************************************************************)
(* C19.  The first-contact notification.                                   *)
(***************************************************************************)
\* C19: once a handling is past its first-contact step, it has sent the
\* notification exactly if its registration succeeded (the insert into the
\* store succeeded and the map was written); the notification comes after
\* the insertion into the map and before any command implementation.
C19_NotifyIffRegistered ==
    \A h \in Handlers :
        /\ pc[h] \in {"resolve", "get", "ping", "pfp", "error_log", "reply", "done"}
           /\ WellFormed(h)
           => /\ Did(h, "notify") <=> DidOk(h, "insert_one")
              /\ Did(h, "notify") <=> Did(h, "map_insert")
        /\ Did(h, "notify") =>
              /\ Did(h, "map_insert")
              /\ Index(h, "map_insert") < Index(h, "notify")
              /\ GuildKey(h) \in DOMAIN prefixes
              /\ Count(h, "notify") = 1
        /\ \A op \in {"ping", "pfp"} :
              Did(h, op) /\ Did(h, "notify") => Index(h, "notify") < Index(h, op)

C19_Witness ==
    \E h \in Handlers :
        /\ Done(h) /\ DidOk(h, "notify") /\ DidOk(h, "ping")
        /\ Index(h, "map_insert") < Index(h, "notify")
        /\ Index(h, "notify") < Index(h, "ping")

(***************************************************************************)
(* C20.  First contact in development mode.                                *)
(***************************************************************************)
\* C20: in development mode a handling makes no insert into the store, adds
\* no entry to the map and sends no first-contact notification.
C20_DevModeNoRegistration ==
    \A h \in Handlers :
        devMode =>
            /\ ~Did(h, "insert_one")
            /\ ~Did(h, "map_insert")
            /\ ~Did(h, "notify")


(***************************************************************************)
(* C14.  When the status loop ends and when it goes on.                    *)
(***************************************************************************)
\* C14: the loop has ended only if the snapshot is empty, and then it has
\* never set a presence and stays ended; with an empty snapshot a started
\* loop ends; with a non-empty snapshot the loop sets a presence again and
\* again, once after every sleep.
C14_ExitOnlyWhenEmpty ==
    /\ [](rpc = "exited" =>
            statuses = <<>> /\ presence = NoActivity /\ rounds = 0)
    /\ [][rpc = "exited" => rpc' = "exited"]_vars
    /\ [][rpc = "not_ready" \/ rpc' # "not_ready"]_vars
    /\ (statuses = <<>>) ~> (rpc = "exited")
    /\ (statuses # <<>>) => []<><<SetActivity>>_vars
    /\ (rpc = "sleep") ~> (rpc = "set_activity")

\* The loop has ended on an empty snapshot.
C14_Witness ==
    rpc = "exited" /\ statuses = <<>> /\ presence = NoActivity

\* The loop has set a presence for the second time.
C14_WitnessAgain ==
    rpc = "sleep" /\ statuses # <<>> /\ rounds = 2

(***************************************************************************)
(* C15.  The loop shows only what was loaded at startup.                   *)
(***************************************************************************)
\* A document of the snapshot.
InSnapshot(d) == \E i \in DOMAIN statuses : statuses[i] = d

\* C15: a sample of a non-empty snapshot is one of its documents and a
\* sample of the empty snapshot is none; the presence, once set, is the
\* activity of a document of the snapshot; and no step changes the snapshot.
C15_OnlyLoadedStatuses ==
    /\ [](/\ \A r \in random_element_vec(statuses) :
                IF statuses = <<>> THEN ~r.some
                ELSE r.some /\ InSnapshot(r.v)
          /\ current.some => InSnapshot(current.v)
          /\ rpc \in {"set_activity", "sleep"} => current.some
          /\ presence # NoActivity =>
                \E i \in DOMAIN statuses :
                    presence = get_activity(statuses[i].type,
                                            statuses[i].status))
    /\ [][statuses' = statuses]_vars

\* The second of two documents is the presence.
C15_Witness ==
    /\ Len(statuses) = 2 /\ statuses[1] # statuses[2]
    /\ rpc = "sleep" /\ current = Some(statuses[2])
    /\ presence = get_activity(statuses[2].type, statuses[2].status)

(***************************************************************************)
(* C17.  The length of the sleep between two presence updates.             *)
(***************************************************************************)
\* C17: while the loop sleeps, the number of seconds it drew is at least
\* 300 and at most 900; and every draw can return 300 and can return 900.
C17_SleepWindow ==
    /\ rpc = "sleep" => 300 <= sleepFor /\ sleepFor <= 900
    /\ {300, 900} \subseteq random_int_from_range(SleepMin, SleepMax)
    /\ \A n \in random_int_from_range(SleepMin, SleepMax) :
            300 <= n /\ n <= 900

\* The loop sleeps for the longest time, after its second update.
C17_Witness == rpc = "sleep" /\ sleepFor = 900 /\ rounds = 2

\* The loop sleeps for the shortest time.
C17_WitnessShortest == rpc = "sleep" /\ sleepFor = 300

(***************************************************************************)
(* C18.  No lock is held across a suspension point.                        *)
(***************************************************************************)
\* The task holds a guard of the prefix map.
HoldsPrefixes(h) == h \in lock.readers \/ h \in lock.writer

\* The task is suspended in a call of the network or of the store.
InRemoteCall(h) ==
    pc[h] \in {"insert_one", "notify", "ping", "pfp", "error_log", "reply"}

\* The task waits for a guard of the prefix map.
AwaitsPrefixes(h) == pc[h] \in {"lookup", "write", "resolve"}

\* C18: a task suspended in a call of the network or of the store holds no
\* guard of the prefix map, and neither does a task that waits for one; the
\* write guard is requested and held only after insert_one has returned Ok;
\* the status loop holds no guard of the statuses while it sets the presence
\* and while it sleeps; and while the loop sleeps, a task that waits for a
\* guard is given it unless another message task holds the map.
C18_NoLockAcrossSuspension ==
    /\ \A h \in Handlers :
        /\ InRemoteCall(h) => ~HoldsPrefixes(h)
        /\ AwaitsPrefixes(h) => ~HoldsPrefixes(h)
        /\ pc[h] = "write" \/ h \in lock.writer => DidOk(h, "insert_one")
        /\ rpc = "sleep" /\ pc[h] = "lookup" /\ lock.writer \subseteq {h} =>
                ENABLED LookupAcquire(h)
        /\ rpc = "sleep" /\ pc[h] = "write"
               /\ lock.writer \subseteq {h} /\ lock.readers \subseteq {h} =>
                ENABLED WriteAcquire(h)
    /\ rpc \in {"set_activity", "sleep", "exited"} => statusLock = {}

\* While the loop sleeps, one task is in the insert and the other reads the
\* map.
C18_Witness ==
    /\ rpc = "sleep"
    /\ pc["h1"] = "insert_one"
    /\ pc["h2"] = "contains_key" /\ "h2" \in lock.readers

\* While the loop sleeps, a task waits for the write guard that the other
\* task's read guard keeps from it.
C18_WitnessWaiting ==
    /\ rpc = "sleep"
    /\ pc["h1"] = "write" /\ ~ENABLED WriteAcquire("h1")
    /\ lock.readers = {"h2"}

(***************************************************************************)
(* C21.  The prefix map and the "prefixes" collection.                     *)
(***************************************************************************)
\* The collection holds a document for the guild.
Stored(k) == \E i \in DOMAIN store : store[i].server_id = k

\* C21: every key of the prefix map has a document in the collection; a
\* step that adds a key is the map insert of a task whose insert_one for
\* that guild returned Ok; no step removes a key and no step changes the
\* value of a key that is there.
C21_MapBackedByStore ==
    /\ [](\A k \in DOMAIN prefixes : Stored(k))
    /\ [][/\ \A k \in DOMAIN prefixes :
                k \in DOMAIN prefixes' /\ prefixes'[k] = prefixes[k]
          /\ \A k \in DOMAIN prefixes' \ DOMAIN prefixes :
                \E h \in Handlers :
                    /\ pc[h] = "map_insert" /\ GuildKey(h) = k
                    /\ DidOk(h, "insert_one")
                    /\ prefixes'[k] = DefaultPrefix
          /\ \A i \in DOMAIN store :
                i \in DOMAIN store' /\ store'[i] = store[i]]_vars

\* Both tasks have registered the same guild, next to a guild whose prefix
\* was loaded at startup and is not "h!".
C21_Witness ==
    /\ \A h \in Handlers : DidOk(h, "map_insert") /\ GuildKey(h) = "1"
    /\ DOMAIN prefixes = {"1", "2"}
    /\ prefixes["1"] = DefaultPrefix /\ prefixes["2"] = <<"p">>
    /\ Stored("1") /\ Stored("2")

=============================================================================
